---------------------------- MODULE Spec2Model ----------------------------
(***************************************************************************)
(* A model of src/src/graphics_stuff/basic_tracer.py: a ray tracer that    *)
(* renders a scene of spheres into a raster.                               *)
(*                                                                         *)
(* Numbers.  Python floats are modelled in two ways, both integer-based:   *)
(*  - vectors, lengths and intensities are fixed-point numbers, an integer *)
(*    n standing for n / Unit;                                             *)
(*  - a ray parameter t (a root of the intersection quadratic) is the      *)
(*    exact real (x + s * sqrt(n)) / d, kept as the record                 *)
(*    [inf, x, s, n, d], and compared exactly.                             *)
(***************************************************************************)
EXTENDS Integers, Sequences, FiniteSets, TLC

VARIABLES
    fn,       \* the function a pure-function specification applies, or "none"
    args,     \* the arguments of that call
    ret,      \* its result, "pending" before the call
    scene,    \* the Scene passed to draw_scene
    img,      \* [width, height]: img.size
    camera_position,
    pixels,   \* the raster: pixels[<<p_x, p_y>>]
    written,  \* history: the raster cells put_pixel has assigned
    todo,     \* the canvas points of draw_scene's loops not yet processed
    pc,       \* "run", "done" or "raised"
    local     \* each worker's canvas point and traced colour (parallel render)

vars == <<fn, args, ret, scene, img, camera_position, pixels, written, todo, pc, local>>

(***************************************************************************)
(* Bounds of the model.                                                    *)
(***************************************************************************)
Unit == 16       \* fixed-point resolution: the integer n stands for n / Unit
MaxCoord == 2    \* ray origins and directions of the pure-function checks
MaxDim == 4      \* raster width and height of the sequential render
MaxParWidth == 2 \* raster width of the any-order render
MaxParHeight == 2
MaxPut == 3      \* put_pixel's canvas offsets range over -MaxPut..MaxPut
MaxLights == 3   \* lights of a compute_lighting call

(***************************************************************************)
(* Integer helpers.                                                        *)
(***************************************************************************)
Abs(i) == IF i < 0 THEN -i ELSE i

Sgn(i) == IF i < 0 THEN -1 ELSE IF i = 0 THEN 0 ELSE 1

\* Python's int() of the float n / d (d > 0): truncation towards zero.
int(n, d) == IF n >= 0 THEN n \div d ELSE -((-n) \div d)

\* math.sqrt of n >= 0, rounded down to an integer.
RECURSIVE SqrtSearch(_, _, _)
SqrtSearch(n, lo, hi) ==
    IF lo >= hi THEN lo
    ELSE LET mid == (lo + hi + 1) \div 2
         IN  IF mid * mid <= n THEN SqrtSearch(n, mid, hi)
             ELSE SqrtSearch(n, lo, mid - 1)

sqrt(n) == SqrtSearch(n, 0, IF n < 46340 THEN n ELSE 46340)

\* The sign of a/b - c/d for a, c >= 0 and b, d > 0, by Euclid's algorithm
\* (no product is formed, so no intermediate value leaves the integer range).
RECURSIVE CmpFrac(_, _, _, _)
CmpFrac(a, b, c, d) ==
    LET qa == a \div b
        qc == c \div d
        ra == a % b
        rc == c % d
    IN  IF qa # qc THEN Sgn(qa - qc)
        ELSE IF ra = 0 /\ rc = 0 THEN 0
        ELSE IF ra = 0 THEN -1
        ELSE IF rc = 0 THEN 1
        ELSE CmpFrac(d, rc, b, ra)

(***************************************************************************)
(* Exact reals (x + s * sqrt(n)) / d, with d > 0, s in {1, -1}, n >= 0,    *)
(* and +infinity.                                                          *)
(***************************************************************************)
POS_INF == [inf |-> TRUE, x |-> 0, s |-> 1, n |-> 0, d |-> 1]

Rat(p, q) == [inf |-> FALSE, x |-> p, s |-> 1, n |-> 0, d |-> q]

\* The sign of g + e * w * sqrt(n), for e in {1, -1}, w > 0, n >= 0.
SignLin(g, e, w, n) ==
    IF n = 0 THEN Sgn(g)
    ELSE IF g = 0 THEN e
    ELSE IF Sgn(g) = e THEN e
    ELSE Sgn(g) * CmpFrac(Abs(g), w * w, n, Abs(g))

\* The sign of m + e * 2 * sqrt(n1 * n2).
SignProd(m, e, n1, n2) ==
    IF n1 = 0 \/ n2 = 0 THEN Sgn(m)
    ELSE IF m = 0 THEN e
    ELSE IF Sgn(m) = e THEN e
    ELSE Sgn(m) * CmpFrac(Abs(m), 2 * n1, 2 * n2, Abs(m))

\* The sign of g + e1 * sqrt(n1) + e2 * sqrt(n2).
SignSum(g, e1, n1, e2, n2) ==
    LET t == IF n1 = 0 /\ n2 = 0 THEN 0
             ELSE IF n1 = 0 THEN e2
             ELSE IF n2 = 0 THEN e1
             ELSE IF e1 = e2 THEN e1
             ELSE e1 * Sgn(n1 - n2)
    IN  IF t = 0 THEN Sgn(g)
        ELSE IF g = 0 THEN t
        ELSE IF Sgn(g) = t THEN t
        ELSE t * SignProd(n1 + n2 - g * g, e1 * e2, n1, n2)

\* The sign of u - v for finite u, v.
SignDiff(u, v) ==
    IF u.d = v.d THEN SignSum(u.x - v.x, u.s, u.n, -v.s, v.n)
    ELSE IF v.n = 0 THEN SignLin(v.d * u.x - u.d * v.x, u.s, v.d, u.n)
    ELSE IF u.n = 0 THEN SignLin(v.d * u.x - u.d * v.x, -v.s, u.d, v.n)
    ELSE SignSum(v.d * u.x - u.d * v.x, u.s, v.d * v.d * u.n, -v.s, u.d * u.d * v.n)

\* Python's u < v on floats, infinity included.
Lt(u, v) ==
    IF u.inf THEN FALSE
    ELSE IF v.inf THEN TRUE
    ELSE SignDiff(u, v) < 0

\* u == v on floats.
Eq(u, v) ==
    IF u.inf \/ v.inf THEN u.inf /\ v.inf
    ELSE SignDiff(u, v) = 0


(***************************************************************************)
(* Fixed-point floats.  A vector is a sequence of three integers, each n   *)
(* standing for n / Unit; a product of two such numbers (dot, r2, the      *)
(* quadratic's a, b, c) stands for n / Unit^2.  Roundings truncate.        *)
(***************************************************************************)
Min(p, q) == IF p <= q THEN p ELSE q

Max(p, q) == IF p >= q THEN p ELSE q

\* An int (or a tuple of ints) converted to float.
Float(i) == i * Unit

Float3(c) == <<Float(c[1]), Float(c[2]), Float(c[3])>>

\* The float p / q of two numbers of one scale; ZeroDivisionError is the caller's.
Quotient(p, q) == IF q > 0 THEN int(p * Unit, q) ELSE int(-(p * Unit), -q)

\* A real t as a float: (x + s * sqrt(n)) / d rounded to 1 / Unit.
Fixed(t) == int(Unit * (t.x + t.s * sqrt(t.n)), t.d)

BLACK == <<0, 0, 0>>
RED == <<255, 0, 0>>
GREEN == <<0, 255, 0>>
BLUE == <<0, 0, 255>>
WHITE == <<255, 255, 255>>
BACKGROUND_COLOR == WHITE

EPSILON == Rat(1, 10000)

dot(a, b) == a[1] * b[1] + a[2] * b[2] + a[3] * b[3]

length(a) == sqrt(dot(a, a))

scalar_multiply(a, s) == <<int(a[1] * s, Unit), int(a[2] * s, Unit), int(a[3] * s, Unit)>>

add(a, b) == <<a[1] + b[1], a[2] + b[2], a[3] + b[3]>>

subtract(a, b) == <<a[1] - b[1], a[2] - b[2], a[3] - b[3]>>

\* _clamp_value without max(0, s).
ClampValueNoMax(s) == int(Min(Float(255), s), Unit)

_clamp_value(s) == int(Min(Float(255), Max(0, s)), Unit)

clamp(a) == <<_clamp_value(a[1]), _clamp_value(a[2]), _clamp_value(a[3])>>

(***************************************************************************)
(* The scene model.  None is 0 for a sphere reference and NoSpecular for a *)
(* specular exponent; a light's unused position or direction is ZeroVec.   *)
(***************************************************************************)
None == 0

NoSpecular == -1

ZeroVec == <<0, 0, 0>>

Sphere(center, radius, color, specular) ==
    [center |-> center, radius |-> radius, color |-> color,
     r2 |-> radius * radius, specular |-> specular]

Light(light_type, intensity, position, direction) ==
    [light_type |-> light_type, intensity |-> intensity,
     position |-> position, direction |-> direction]

Scene(viewport_size, projection_plane, background_color, spheres, lights) ==
    [viewport_size |-> viewport_size, projection_plane |-> projection_plane,
     background_color |-> background_color, spheres |-> spheres, lights |-> lights]

canvas_to_viewport(canvas_point, image, sc) ==
    <<int(Float(canvas_point[1] * sc.viewport_size), image.width),
      int(Float(canvas_point[2] * sc.viewport_size), image.height),
      Float(sc.projection_plane)>>

(***************************************************************************)
(* The intersection engine.  A result carries raised = TRUE when the code  *)
(* raises (ZeroDivisionError) instead of returning.                        *)
(***************************************************************************)
\* Roots with "/ 2 * a" for "/ (2 * a)": the numerator halved and multiplied by a.
RootsHalfTimesA(a, b, discriminant) ==
    [raised |-> FALSE,
     t_1 |-> [inf |-> FALSE, x |-> -b * a, s |-> 1, n |-> a * a * discriminant, d |-> 2],
     t_2 |-> [inf |-> FALSE, x |-> -b * a, s |-> -1, n |-> a * a * discriminant, d |-> 2]]

Roots(a, b, discriminant) ==
    [raised |-> 2 * a = 0,
     t_1 |-> [inf |-> FALSE, x |-> -b, s |-> 1, n |-> discriminant, d |-> 2 * a],
     t_2 |-> [inf |-> FALSE, x |-> -b, s |-> -1, n |-> discriminant, d |-> 2 * a]]

intersect_ray_sphere(origin, direction, sphere) ==
    LET origin_to_sphere == subtract(origin, sphere.center)
        a == dot(direction, direction)
        b == 2 * dot(origin_to_sphere, direction)
        c == dot(origin_to_sphere, origin_to_sphere) - sphere.r2
        discriminant == b * b - (4 * a * c)
    IN  IF discriminant < 0
        THEN [raised |-> FALSE, t_1 |-> POS_INF, t_2 |-> POS_INF]
        ELSE Roots(a, b, discriminant)

\* Closer without its test of the second root.
CloserFirstRootOnly(cur, i, r, t_min, t_max) ==
    IF Lt(r.t_1, cur.t) /\ Lt(t_min, r.t_1) /\ Lt(r.t_1, t_max)
    THEN [raised |-> FALSE, sphere |-> i, t |-> r.t_1]
    ELSE cur

\* Closer with "<=" for "<" in the comparison with closest_t.
CloserOrEqual(cur, i, r, t_min, t_max) ==
    LET one == IF ~Lt(cur.t, r.t_1) /\ Lt(t_min, r.t_1) /\ Lt(r.t_1, t_max)
               THEN [raised |-> FALSE, sphere |-> i, t |-> r.t_1]
               ELSE cur
    IN  IF ~Lt(one.t, r.t_2) /\ Lt(t_min, r.t_2) /\ Lt(r.t_2, t_max)
        THEN [raised |-> FALSE, sphere |-> i, t |-> r.t_2]
        ELSE one

\* One iteration of closest_intersection's loop: the (closest_sphere, closest_t)
\* after sphere number i, given the pair before it.
Closer(cur, i, r, t_min, t_max) ==
    LET one == IF Lt(r.t_1, cur.t) /\ Lt(t_min, r.t_1) /\ Lt(r.t_1, t_max)
               THEN [raised |-> FALSE, sphere |-> i, t |-> r.t_1]
               ELSE cur
    IN  IF Lt(r.t_2, one.t) /\ Lt(t_min, r.t_2) /\ Lt(r.t_2, t_max)
        THEN [raised |-> FALSE, sphere |-> i, t |-> r.t_2]
        ELSE one

RECURSIVE ClosestFrom(_, _, _, _, _, _, _)
ClosestFrom(origin, direction, t_min, t_max, spheres, i, cur) ==
    IF i > Len(spheres) THEN cur
    ELSE LET r == intersect_ray_sphere(origin, direction, spheres[i])
         IN  IF r.raised
             THEN [raised |-> TRUE, sphere |-> None, t |-> POS_INF]
             ELSE ClosestFrom(origin, direction, t_min, t_max, spheres, i + 1,
                              Closer(cur, i, r, t_min, t_max))

\* Returns the index of closest_sphere in spheres (None = 0) and closest_t.
closest_intersection(origin, direction, t_min, t_max, spheres) ==
    ClosestFrom(origin, direction, t_min, t_max, spheres, 1,
                [raised |-> FALSE, sphere |-> None, t |-> POS_INF])

(***************************************************************************)
(* The shading model.                                                      *)
(***************************************************************************)
\* math.pow(x, specular) for an exponent specular >= 0.
RECURSIVE pow(_, _)
pow(x, specular) ==
    IF specular = 0 THEN Float(1) ELSE int(x * pow(x, specular - 1), Unit)

\* The diffuse term of one light (lines 145-147).
Diffuse(light, normal, light_direction, length_n) ==
    LET n_dot_l == dot(normal, light_direction)
        den == length_n * length(light_direction)
    IN  IF n_dot_l > 0
        THEN [raised |-> den = 0,
              intensity |-> IF den = 0 THEN 0
                            ELSE int(light.intensity * Quotient(n_dot_l, den), Unit)]
        ELSE [raised |-> FALSE, intensity |-> 0]

\* The specular term of one light (lines 150-154).
Specular(light, normal, view, light_direction, length_v, specular) ==
    LET reflection == subtract(scalar_multiply(normal,
                                   int(2 * dot(normal, light_direction), Unit)),
                               light_direction)
        r_dot_v == dot(reflection, view)
        den == length(reflection) * length_v
    IN  IF specular # NoSpecular /\ r_dot_v > 0
        THEN [raised |-> den = 0,
              intensity |-> IF den = 0 THEN 0
                            ELSE int(light.intensity * pow(Quotient(r_dot_v, den), specular),
                                     Unit)]
        ELSE [raised |-> FALSE, intensity |-> 0]

\* LightStep with "break" for the shadow check's "continue".
LightStepBreak(intensity, light, point, normal, view, spheres, specular) ==
    IF light.light_type = "AMBIENT"
    THEN [raised |-> FALSE, stop |-> FALSE, intensity |-> intensity + light.intensity]
    ELSE LET light_direction == IF light.light_type = "POINT"
                                THEN subtract(light.position, point)
                                ELSE light.direction
             t_max == IF light.light_type = "POINT" THEN Rat(1, 1) ELSE POS_INF
             shadow == closest_intersection(point, light_direction, EPSILON, t_max, spheres)
             df == Diffuse(light, normal, light_direction, length(normal))
             sp == Specular(light, normal, view, light_direction, length(view), specular)
         IN  IF shadow.raised
             THEN [raised |-> TRUE, stop |-> FALSE, intensity |-> intensity]
             ELSE IF shadow.sphere # None
             THEN [raised |-> FALSE, stop |-> TRUE, intensity |-> intensity]
             ELSE [raised |-> df.raised \/ sp.raised, stop |-> FALSE,
                   intensity |-> intensity + df.intensity + sp.intensity]

\* One iteration of compute_lighting's loop: the intensity after this light
\* (stop: the loop is left early, which this code never does).
LightStep(intensity, light, point, normal, view, spheres, specular) ==
    IF light.light_type = "AMBIENT"
    THEN [raised |-> FALSE, stop |-> FALSE, intensity |-> intensity + light.intensity]
    ELSE LET light_direction == IF light.light_type = "POINT"
                                THEN subtract(light.position, point)
                                ELSE light.direction
             t_max == IF light.light_type = "POINT" THEN Rat(1, 1) ELSE POS_INF
             shadow == closest_intersection(point, light_direction, EPSILON, t_max, spheres)
             df == Diffuse(light, normal, light_direction, length(normal))
             sp == Specular(light, normal, view, light_direction, length(view), specular)
         IN  IF shadow.raised
             THEN [raised |-> TRUE, stop |-> FALSE, intensity |-> intensity]
             ELSE IF shadow.sphere # None
             THEN [raised |-> FALSE, stop |-> FALSE, intensity |-> intensity]
             ELSE [raised |-> df.raised \/ sp.raised, stop |-> FALSE,
                   intensity |-> intensity + df.intensity + sp.intensity]

RECURSIVE LightingFrom(_, _, _, _, _, _, _, _)
LightingFrom(point, normal, view, spheres, lights, specular, i, intensity) ==
    IF i > Len(lights) THEN [raised |-> FALSE, intensity |-> intensity]
    ELSE LET r == LightStep(intensity, lights[i], point, normal, view, spheres, specular)
         IN  IF r.raised THEN [raised |-> TRUE, intensity |-> 0]
             ELSE IF r.stop THEN [raised |-> FALSE, intensity |-> r.intensity]
             ELSE LightingFrom(point, normal, view, spheres, lights, specular,
                               i + 1, r.intensity)

compute_lighting(point, normal, view, spheres, lights, specular) ==
    LightingFrom(point, normal, view, spheres, lights, specular, 1, 0)

(***************************************************************************)
(* The ray-tracing entry point and the raster.                             *)
(***************************************************************************)
\* Lines 182-188: the colour of the hit on sphere number hit.sphere at hit.t.
Shade(origin, direction, hit, sc) ==
    LET closest_sphere == sc.spheres[hit.sphere]
        point == add(origin, scalar_multiply(direction, Fixed(hit.t)))
        normal0 == subtract(point, closest_sphere.center)
        len == length(normal0)
        normal == scalar_multiply(normal0, Quotient(Float(1), len))
        view == scalar_multiply(direction, Float(-1))
        lighting == compute_lighting(point, normal, view, sc.spheres, sc.lights,
                                     closest_sphere.specular)
    IN  IF len = 0 \/ lighting.raised
        THEN [raised |-> TRUE, color |-> ZeroVec]
        ELSE [raised |-> FALSE,
              color |-> scalar_multiply(Float3(closest_sphere.color), lighting.intensity)]

trace_ray(origin, direction, t_min, t_max, sc) ==
    LET hit == closest_intersection(origin, direction, t_min, t_max, sc.spheres)
    IN  IF hit.raised THEN [raised |-> TRUE, color |-> ZeroVec]
        ELSE IF hit.sphere = None
        THEN [raised |-> FALSE, color |-> Float3(BACKGROUND_COLOR)]
        ELSE Shade(origin, direction, hit, sc)

\* create_image: Image.new fills the raster with 0.
create_image(width, height) ==
    [c \in (0 .. width - 1) \X (0 .. height - 1) |-> BLACK]

\* Cell without "- point[1]": every canvas point of a column addresses one cell.
CellIgnoringY(image, point) ==
    <<int(image.width + 2 * point[1], 2), int(image.height, 2) - 1>>

\* The raster cell put_pixel addresses.
Cell(image, point) ==
    <<int(image.width + 2 * point[1], 2), int(image.height - 2 * point[2], 2) - 1>>

InRaster(image, cell) ==
    0 <= cell[1] /\ cell[1] < image.width /\ 0 <= cell[2] /\ cell[2] < image.height

put_pixel(image, px, point, color) ==
    IF InRaster(image, Cell(image, point))
    THEN [px EXCEPT ![Cell(image, point)] = color]
    ELSE px

\* The canvas points of draw_scene's two loops, in loop order.
CanvasPoints(image) ==
    LET x0 == int(-image.width, 2)
        y0 == int(-image.height, 2)
        nx == int(image.width, 2) - x0
        ny == int(image.height, 2) - y0
    IN  [k \in 1 .. nx * ny |-> <<x0 + ((k - 1) \div ny), y0 + ((k - 1) % ny)>>]

\* The loop body of draw_scene up to the colour (lines 196-197).
PixelColor(sc, image, camera, point) ==
    trace_ray(camera, canvas_to_viewport(point, image, sc), Rat(1, 1), POS_INF, sc)

(***************************************************************************)
(* Scenes of the render specifications.  Coordinates are whole world units *)
(* and intensities tenths, as in main().                                   *)
(***************************************************************************)
Tenths(k) == int(k * Unit, 10)

World(center, radius, color, specular) ==
    Sphere(Float3(center), Float(radius), color, specular)

AmbientLight == Light("AMBIENT", Tenths(2), ZeroVec, ZeroVec)

PointLight == Light("POINT", Tenths(6), Float3(<<2, 1, 0>>), ZeroVec)

DirectionalLight == Light("DIRECTIONAL", Tenths(2), ZeroVec, Float3(<<1, 4, 4>>))

\* A directional light whose direction is the zero vector.
ZeroDirectionLight == Light("DIRECTIONAL", Tenths(2), ZeroVec, ZeroVec)

SceneSpheres ==
    { <<>>,
      <<World(<<0, -1, 3>>, 1, RED, 2)>>,
      <<World(<<0, -1, 3>>, 1, RED, 2), World(<<2, 0, 4>>, 1, BLUE, NoSpecular),
        World(<<-2, 0, 4>>, 1, GREEN, 1)>> }

SceneLights ==
    { <<AmbientLight>>,
      <<AmbientLight, PointLight, DirectionalLight>>,
      <<AmbientLight, ZeroDirectionLight>> }

Scenes ==
    { Scene(1, 1, bg, sp, li) : bg \in {WHITE, BLACK}, sp \in SceneSpheres, li \in SceneLights }

Idle == [state |-> "idle", point |-> <<0, 0>>, color |-> BLACK]

Workers == {"w1", "w2"}

NoCall == fn = "none" /\ args = <<>> /\ ret = "pending"

(***************************************************************************)
(* draw_scene, sequential: one action per iteration of the inner loop.     *)
(***************************************************************************)
RenderInit(maxw, maxh) ==
    /\ NoCall
    /\ scene \in Scenes
    /\ \E w \in 1 .. maxw, h \in 1 .. maxh : img = [width |-> w, height |-> h]
    /\ camera_position = ZeroVec
    /\ pixels = create_image(img.width, img.height)
    /\ written = {}
    /\ todo = CanvasPoints(img)
    /\ pc = "run"
    /\ local = [w \in Workers |-> Idle]

Init == RenderInit(MaxDim, MaxDim)

\* Lines 196-198 for the next canvas point of the loops.
DrawPixel ==
    /\ pc = "run"
    /\ todo # <<>>
    /\ LET point == Head(todo)
           traced == PixelColor(scene, img, camera_position, point)
       IN  IF traced.raised
           THEN /\ pc' = "raised"
                /\ UNCHANGED <<pixels, written, todo>>
           ELSE /\ pixels' = put_pixel(img, pixels, point, clamp(traced.color))
                /\ written' = written \cup ({Cell(img, point)} \cap DOMAIN pixels)
                /\ todo' = Tail(todo)
                /\ pc' = pc
    /\ UNCHANGED <<fn, args, ret, scene, img, camera_position, local>>

\* The loops are exhausted: draw_scene returns.
DrawReturn ==
    /\ pc = "run"
    /\ todo = <<>>
    /\ pc' = "done"
    /\ UNCHANGED <<fn, args, ret, scene, img, camera_position, pixels, written, todo, local>>

Next == DrawPixel \/ DrawReturn

Spec == Init /\ [][Next]_vars

(***************************************************************************)
(* draw_scene with its iterations handed to workers: a worker takes any    *)
(* canvas point not yet taken (so the workers' points are disjoint),       *)
(* traces it, and later writes the pixel.                                  *)
(***************************************************************************)
Remove(seq, i) == SubSeq(seq, 1, i - 1) \o SubSeq(seq, i + 1, Len(seq))

ParInit == RenderInit(MaxParWidth, MaxParHeight)

WorkerTrace(w) ==
    /\ pc = "run"
    /\ local[w].state = "idle"
    /\ \E i \in 1 .. Len(todo) :
         LET traced == PixelColor(scene, img, camera_position, todo[i])
         IN  /\ todo' = Remove(todo, i)
             /\ IF traced.raised
                THEN pc' = "raised" /\ local' = local
                ELSE /\ pc' = pc
                     /\ local' = [local EXCEPT ![w] = [state |-> "traced", point |-> todo[i],
                                                      color |-> clamp(traced.color)]]
    /\ UNCHANGED <<fn, args, ret, scene, img, camera_position, pixels, written>>

WorkerPut(w) ==
    /\ pc = "run"
    /\ local[w].state = "traced"
    /\ pixels' = put_pixel(img, pixels, local[w].point, local[w].color)
    /\ written' = written \cup ({Cell(img, local[w].point)} \cap DOMAIN pixels)
    /\ local' = [local EXCEPT ![w] = Idle]
    /\ UNCHANGED <<fn, args, ret, scene, img, camera_position, todo, pc>>

ParReturn ==
    /\ pc = "run"
    /\ todo = <<>>
    /\ \A w \in Workers : local[w].state = "idle"
    /\ pc' = "done"
    /\ UNCHANGED <<fn, args, ret, scene, img, camera_position, pixels, written, todo, local>>

ParNext == (\E w \in Workers : WorkerTrace(w) \/ WorkerPut(w)) \/ ParReturn

SpecPar == ParInit /\ [][ParNext]_vars

(***************************************************************************)
(* The intersection engine applied to whole-number rays and spheres (on    *)
(* which dot, subtract and the quadratic's coefficients are exact).        *)
(***************************************************************************)
RenderUnused ==
    /\ scene = <<>>
    /\ img = [width |-> 1, height |-> 1]
    /\ camera_position = ZeroVec
    /\ pixels = create_image(1, 1)
    /\ written = {}
    /\ todo = <<>>
    /\ pc = "none"
    /\ local = [w \in Workers |-> Idle]

RayVectors == { <<x, y, z>> : x \in -MaxCoord .. MaxCoord, y \in -MaxCoord .. MaxCoord,
                              z \in -MaxCoord .. MaxCoord }

RayOrigins == { ZeroVec, <<1, 0, 0>> }

RaySpheres ==
    { Sphere(<<0, 0, 3>>, 1, RED, NoSpecular), Sphere(<<0, 0, 4>>, 2, BLUE, 1),
      Sphere(<<0, 2, 2>>, 1, GREEN, 2), Sphere(<<1, 0, 0>>, 2, WHITE, NoSpecular) }

RaySphereLists ==
    { <<>> } \cup { <<p>> : p \in RaySpheres } \cup { <<p, q>> : p \in RaySpheres, q \in RaySpheres }

\* (t_min, t_max) of the code's three call sites: primary rays, point-light
\* shadow rays, directional-light shadow rays.
RayRanges == { <<Rat(1, 1), POS_INF>>, <<EPSILON, Rat(1, 1)>>, <<EPSILON, POS_INF>> }

RayInit ==
    /\ fn = "none"
    /\ ret = "pending"
    /\ \E o \in RayOrigins, d \in RayVectors, rg \in RayRanges, sp \in RaySphereLists :
         args = [origin |-> o, direction |-> d, t_min |-> rg[1], t_max |-> rg[2],
                 spheres |-> sp]
    /\ RenderUnused

CallIntersectRaySphere ==
    /\ fn = "none"
    /\ \E i \in 1 .. Len(args.spheres) :
         ret' = [sphere |-> i,
                 result |-> intersect_ray_sphere(args.origin, args.direction, args.spheres[i])]
    /\ fn' = "intersect_ray_sphere"
    /\ UNCHANGED <<args, scene, img, camera_position, pixels, written, todo, pc, local>>

CallClosestIntersection ==
    /\ fn = "none"
    /\ ret' = closest_intersection(args.origin, args.direction, args.t_min, args.t_max,
                                   args.spheres)
    /\ fn' = "closest_intersection"
    /\ UNCHANGED <<args, scene, img, camera_position, pixels, written, todo, pc, local>>

RayNext == CallIntersectRaySphere \/ CallClosestIntersection

SpecRay == RayInit /\ [][RayNext]_vars

(***************************************************************************)
(* Claims about the intersection engine, checked under SpecRay.            *)
(***************************************************************************)
\* The quadratic's coefficients of the call in args, for sphere number i.
CoefA == dot(args.direction, args.direction)

CoefB(i) == 2 * dot(subtract(args.origin, args.spheres[i].center), args.direction)

CoefC(i) ==
    LET oc == subtract(args.origin, args.spheres[i].center)
    IN  dot(oc, oc) - args.spheres[i].radius * args.spheres[i].radius

\* a * t^2 + b * t + c = 0 for the real t = (x + s * sqrt(n)) / d: with
\* p + q * sqrt(n) the value of d^2 * (a * t^2 + b * t + c).
IsRoot(a, b, c, t) ==
    LET p == a * (t.x * t.x + t.n) + b * t.d * t.x + c * t.d * t.d
        q == t.s * (2 * a * t.x + b * t.d)
    IN  IF q = 0 THEN p = 0 ELSE SignLin(p, Sgn(q), Abs(q), t.n) = 0

\* The sphere of the call is centred on the ray's axis at distance k, the
\* direction a unit vector and the radius less than k.
OnAxis(i, k) ==
    /\ CoefA = 1
    /\ args.spheres[i].center = add(args.origin, <<k * args.direction[1],
                                        k * args.direction[2], k * args.direction[3]>>)
    /\ args.spheres[i].radius < k

\* C10: intersect_ray_sphere returns (+inf, +inf) exactly when b^2 - 4ac < 0, and
\* otherwise (for a direction with a # 0) the two values (-b + sqrt(b^2 - 4ac)) / (2a)
\* and (-b - sqrt(b^2 - 4ac)) / (2a): each is a root of a*t^2 + b*t + c, the first the
\* larger, and for a sphere on the ray's axis at distance k with radius r < k and a
\* unit direction they are k + r and k - r.
C10_RootsOverTwoA ==
    fn = "intersect_ray_sphere" =>
        LET i == ret.sphere
            r == ret.result
            disc == CoefB(i) * CoefB(i) - 4 * CoefA * CoefC(i)
        IN  /\ (~r.raised /\ r.t_1.inf /\ r.t_2.inf) <=> (disc < 0)
            /\ r.raised <=> (disc >= 0 /\ CoefA = 0)
            /\ (disc >= 0 /\ CoefA # 0) =>
                 /\ IsRoot(CoefA, CoefB(i), CoefC(i), r.t_1)
                 /\ IsRoot(CoefA, CoefB(i), CoefC(i), r.t_2)
                 /\ ~Lt(r.t_1, r.t_2)
                 /\ Eq(r.t_1, r.t_2) <=> (disc = 0)
                 /\ \A k \in 1 .. 4 :
                      OnAxis(i, k) => /\ Eq(r.t_1, Rat(k + args.spheres[i].radius, 1))
                                      /\ Eq(r.t_2, Rat(k - args.spheres[i].radius, 1))

\* A call on a direction with a # 1 whose two roots are distinct and irrational.
C10_Witness ==
    /\ fn = "intersect_ray_sphere"
    /\ ~ret.result.raised
    /\ ~ret.result.t_1.inf
    /\ CoefA > 1
    /\ ret.result.t_1.n > 0
    /\ sqrt(ret.result.t_1.n) * sqrt(ret.result.t_1.n) # ret.result.t_1.n

\* The roots of sphere number i that lie strictly inside (t_min, t_max).
QualifyingRoots(i) ==
    LET r == intersect_ray_sphere(args.origin, args.direction, args.spheres[i])
    IN  { t \in {r.t_1, r.t_2} : Lt(args.t_min, t) /\ Lt(t, args.t_max) }

AllQualifying == UNION { QualifyingRoots(i) : i \in 1 .. Len(args.spheres) }

\* C3: closest_intersection returns (sphere, t) with t the smallest root of any sphere
\* strictly inside (t_min, t_max) and sphere a sphere having that root, and (None, +inf)
\* if there is no such root; so sphere is None exactly when t is +inf, and a root equal
\* to t_min or t_max is never selected.
C3_SmallestRootInside ==
    (fn = "closest_intersection" /\ ~ret.raised) =>
        /\ (ret.sphere = None) <=> ret.t.inf
        /\ (AllQualifying = {}) <=> (ret.sphere = None)
        /\ ret.sphere # None =>
             /\ ret.sphere \in 1 .. Len(args.spheres)
             /\ \E t \in QualifyingRoots(ret.sphere) : Eq(t, ret.t)
             /\ \A t \in AllQualifying : ~Lt(t, ret.t)
             /\ Lt(args.t_min, ret.t) /\ Lt(ret.t, args.t_max)

\* A call that returns the second of two spheres, with a root of the first equal to
\* t_min or t_max and so passed over.
C3_Witness ==
    /\ fn = "closest_intersection"
    /\ ~ret.raised
    /\ ret.sphere = 2
    /\ LET r == intersect_ray_sphere(args.origin, args.direction, args.spheres[1])
       IN  \E t \in {r.t_1, r.t_2} : ~t.inf /\ (Eq(t, args.t_min) \/ Eq(t, args.t_max))

\* C4: when several spheres have a qualifying root at the smallest t,
\* closest_intersection returns the one earliest in the sphere sequence.
C4_EarliestSphereWinsTie ==
    (fn = "closest_intersection" /\ ~ret.raised /\ ret.sphere # None) =>
        \A j \in 1 .. Len(args.spheres) :
            (\E t \in QualifyingRoots(j) : Eq(t, ret.t)) => ret.sphere <= j

\* A call in which two different spheres are reached at the same smallest t.
C4_Witness ==
    /\ fn = "closest_intersection"
    /\ ~ret.raised
    /\ ret.sphere = 1
    /\ Len(args.spheres) = 2
    /\ args.spheres[1] # args.spheres[2]
    /\ \E t \in QualifyingRoots(2) : Eq(t, ret.t)

(***************************************************************************)
(* trace_ray applied to rays from the camera position.                     *)
(***************************************************************************)
TraceVectors == { Float3(<<x, y, z>>) : x \in -1 .. 1, y \in -1 .. 1, z \in -1 .. 1 }

TraceInit ==
    /\ fn = "none"
    /\ ret = "pending"
    /\ \E d \in TraceVectors, rg \in RayRanges, sc \in Scenes :
         args = [origin |-> ZeroVec, direction |-> d, t_min |-> rg[1], t_max |-> rg[2],
                 scene |-> sc]
    /\ RenderUnused

CallTraceRay ==
    /\ fn = "none"
    /\ ret' = trace_ray(args.origin, args.direction, args.t_min, args.t_max, args.scene)
    /\ fn' = "trace_ray"
    /\ UNCHANGED <<args, scene, img, camera_position, pixels, written, todo, pc, local>>

SpecTrace == TraceInit /\ [][CallTraceRay]_vars

\* No sphere of the scene has a root strictly inside (t_min, t_max).
MissesEverySphere ==
    \A i \in 1 .. Len(args.scene.spheres) :
        LET r == intersect_ray_sphere(args.origin, args.direction, args.scene.spheres[i])
        IN  \A t \in {r.t_1, r.t_2} : ~(Lt(args.t_min, t) /\ Lt(t, args.t_max))

\* C1: for a ray with no intersection root of any sphere strictly inside (t_min, t_max),
\* trace_ray returns the background colour stored in the Scene it was passed.
C1_MissReturnsSceneBackground ==
    (fn = "trace_ray" /\ ~ret.raised /\ MissesEverySphere) =>
        ret.color = Float3(args.scene.background_color)

(***************************************************************************)
(* compute_lighting applied to a surface point.                            *)
(***************************************************************************)
LightChoices ==
    { AmbientLight,
      Light("POINT", Tenths(6), Float3(<<0, 6, 0>>), ZeroVec),
      Light("POINT", Tenths(4), Float3(<<4, 3, 0>>), ZeroVec),
      Light("DIRECTIONAL", Tenths(2), ZeroVec, Float3(<<0, 1, 0>>)),
      Light("DIRECTIONAL", Tenths(3), ZeroVec, Float3(<<1, 1, 0>>)) }

LightLists == UNION { [1 .. n -> LightChoices] : n \in 0 .. MaxLights }

\* The sphere the point lies on, a sphere between the point and the light at
\* (0, 6, 0), and a sphere behind that light.
LightSpheres ==
    { <<>>,
      <<World(<<0, -1, 0>>, 1, RED, 2)>>,
      <<World(<<0, -1, 0>>, 1, RED, 2), World(<<0, 3, 0>>, 1, BLUE, 2)>>,
      <<World(<<0, -1, 0>>, 1, RED, 2), World(<<0, 9, 0>>, 1, BLUE, 2)>> }

LightInit ==
    /\ fn = "none"
    /\ ret = "pending"
    /\ \E n \in {Float3(<<0, 1, 0>>), Float3(<<0, 0, -1>>)},
          v \in {Float3(<<0, 1, 0>>), Float3(<<1, 1, -1>>)},
          e \in {NoSpecular, 1, 3}, sp \in LightSpheres, li \in LightLists :
         args = [point |-> ZeroVec, normal |-> n, view |-> v, spheres |-> sp,
                 lights |-> li, specular |-> e]
    /\ RenderUnused

CallComputeLighting ==
    /\ fn = "none"
    /\ ret' = compute_lighting(args.point, args.normal, args.view, args.spheres,
                               args.lights, args.specular)
    /\ fn' = "compute_lighting"
    /\ UNCHANGED <<args, scene, img, camera_position, pixels, written, todo, pc, local>>

SpecLight == LightInit /\ [][CallComputeLighting]_vars

\* The shadow query of light number i of the call returns a sphere.
Occluded(i) ==
    LET light == args.lights[i]
        shadow == IF light.light_type = "POINT"
                  THEN closest_intersection(args.point, subtract(light.position, args.point),
                                            EPSILON, Rat(1, 1), args.spheres)
                  ELSE closest_intersection(args.point, light.direction, EPSILON, POS_INF,
                                            args.spheres)
    IN  light.light_type # "AMBIENT" /\ ~shadow.raised /\ shadow.sphere # None

\* compute_lighting of the call with its lights replaced.
LightingOf(lights) ==
    compute_lighting(args.point, args.normal, args.view, args.spheres, lights, args.specular)

\* C5: a point or directional light whose shadow query returns a sphere adds nothing,
\* and every other light, before or after it, adds exactly what it adds with the
\* occluded light absent from the list.
C5_OccludedLightAddsNothing ==
    fn = "compute_lighting" =>
        \A i \in 1 .. Len(args.lights) :
            Occluded(i) => ret = LightingOf(Remove(args.lights, i))

\* A call with an occluded light between two lights that are not occluded and each
\* add to the intensity.
C5_Witness ==
    /\ fn = "compute_lighting"
    /\ Len(args.lights) = 3
    /\ Occluded(2)
    /\ \A i \in {1, 3} : /\ args.lights[i].light_type # "AMBIENT"
                         /\ ~Occluded(i)
                         /\ LightingOf(<<args.lights[i]>>).intensity > 0
    /\ args.specular # NoSpecular
    /\ ret.intensity = LightingOf(<<args.lights[1]>>).intensity
                         + LightingOf(<<args.lights[3]>>).intensity

(***************************************************************************)
(* put_pixel applied to a raster.                                          *)
(***************************************************************************)
PutInit ==
    /\ NoCall
    /\ scene = <<>>
    /\ \E w \in 1 .. MaxDim, h \in 1 .. MaxDim : img = [width |-> w, height |-> h]
    /\ camera_position = ZeroVec
    /\ \E c \in {BLACK, GREEN} : pixels = [cell \in DOMAIN create_image(img.width, img.height) |-> c]
    /\ written = {}
    /\ todo = <<>>
    /\ pc = "none"
    /\ local = [w \in Workers |-> Idle]

CallPutPixel ==
    /\ fn = "none"
    /\ \E x \in -MaxPut .. MaxPut, y \in -MaxPut .. MaxPut, c \in {RED, WHITE} :
         /\ args' = [point |-> <<x, y>>, color |-> c, before |-> pixels]
         /\ pixels' = put_pixel(img, pixels, <<x, y>>, c)
    /\ fn' = "put_pixel"
    /\ UNCHANGED <<ret, scene, img, camera_position, written, todo, pc, local>>

SpecPut == PutInit /\ [][CallPutPixel]_vars

\* C6: put_pixel with canvas offset (x, y) writes the colour at exactly the coordinate
\* (width/2 + x, height/2 - y - 1) and changes no other pixel if that coordinate is
\* within the raster, and leaves the raster unchanged if it is outside, for every
\* integer x, y and every positive width and height, odd ones included.
C6_WritesOnlyInBounds ==
    fn = "put_pixel" =>
        LET target == <<(img.width \div 2) + args.point[1],
                        (img.height \div 2) - args.point[2] - 1>>
        IN  IF InRaster(img, target)
            THEN pixels = [args.before EXCEPT ![target] = args.color]
            ELSE pixels = args.before

(***************************************************************************)
(* clamp applied to a vector, and again to its result.                     *)
(***************************************************************************)
ClampInputs ==
    { -Float(300), -Unit - 1, -1, 0, 1, Unit - 1, Unit, Float(100) + 7, Float(255) - 1,
      Float(255), Float(255) + 1, Float(300) }

ClampInit ==
    /\ fn = "none"
    /\ ret = "pending"
    /\ \E a \in ClampInputs, b \in ClampInputs, c \in ClampInputs :
         args = [a |-> <<a, b, c>>, first |-> <<>>]
    /\ RenderUnused

CallClamp ==
    /\ fn = "none"
    /\ ret' = clamp(args.a)
    /\ fn' = "clamp"
    /\ UNCHANGED <<args, scene, img, camera_position, pixels, written, todo, pc, local>>

\* clamp applied to the colour the first call returned.
CallClampAgain ==
    /\ fn = "clamp"
    /\ args' = [a |-> Float3(ret), first |-> ret]
    /\ ret' = clamp(Float3(ret))
    /\ fn' = "clamp_again"
    /\ UNCHANGED <<scene, img, camera_position, pixels, written, todo, pc, local>>

ClampNext == CallClamp \/ CallClampAgain

SpecClamp == ClampInit /\ [][ClampNext]_vars

\* C7: each component of clamp(v) is an integer in [0, 255], and clamping an
\* already-clamped colour returns it unchanged.
C7_ClampIdempotentInRange ==
    /\ fn \in {"clamp", "clamp_again"} =>
         \A k \in 1 .. 3 : ret[k] \in 0 .. 255
    /\ fn = "clamp_again" => ret = args.first

\* A second clamp of the result of clamping a vector with a negative, a fractional
\* in-range and an over-range component.
C7_Witness ==
    /\ fn = "clamp_again"
    /\ args.first = <<0, 100, 255>>
    /\ ret = <<0, 100, 255>>

(***************************************************************************)
(* Claims about draw_scene.                                                *)
(***************************************************************************)
\* draw_scene as a function: the raster after the loops, run in loop order.
RECURSIVE DrawFrom(_, _, _, _, _)
DrawFrom(sc, image, camera, points, px) ==
    IF points = <<>> THEN [raised |-> FALSE, pixels |-> px]
    ELSE LET traced == PixelColor(sc, image, camera, Head(points))
         IN  IF traced.raised THEN [raised |-> TRUE, pixels |-> px]
             ELSE DrawFrom(sc, image, camera, Tail(points),
                           put_pixel(image, px, Head(points), clamp(traced.color)))

draw_scene(sc, image, camera) ==
    DrawFrom(sc, image, camera, CanvasPoints(image),
             create_image(image.width, image.height))

\* C2: when draw_scene finishes, every raster coordinate (i, j) with 0 <= i < width and
\* 0 <= j < height has been written by put_pixel, for every positive width and height.
C2_FullyPopulated ==
    pc = "done" => written = DOMAIN pixels

\* C9: draw_scene terminates normally, without raising an error, for every scene
\* with positive radii and non-negative intensities and every positive raster size.
C9_NeverRaises ==
    pc # "raised"

\* C8: the final raster the render produces does not depend on the order in which the
\* canvas points are processed: with the points taken in any order by workers that
\* hold disjoint points, the finished raster is the one the sequential loop produces,
\* and on the way every cell written already holds the sequential loop's colour.
C8_OrderIndependent ==
    LET seq == draw_scene(scene, img, camera_position)
    IN  /\ pc = "done" => (~seq.raised /\ pixels = seq.pixels)
        /\ (pc = "run" /\ ~seq.raised) => \A c \in written : pixels[c] = seq.pixels[c]

\* A finished any-order render of a raster of at least four canvas points whose
\* pixels have at least three colours.
C8_Witness ==
    /\ pc = "done"
    /\ Len(CanvasPoints(img)) >= 4
    /\ Cardinality({ pixels[c] : c \in written }) >= 3

=============================================================================
